---- MODULE Spec2Model ----
(***************************************************************************)
(* Model of src/app.py: the ingestion of electricity-meter export files    *)
(* (ESL = "Dialect A", absolute readings; SDAT = "Dialect B", relative     *)
(* volumes) into one series per meter, and the two payloads built from it. *)
(*                                                                         *)
(* Floats are fixed-point integers (tenths); float("nan") is the record    *)
(* NaN, Python's None is the record None.  Instants are whole hours of one *)
(* day, already in UTC.                                                    *)
(***************************************************************************)
EXTENDS Integers, Sequences, FiniteSets, TLC

VARIABLES
    pc,         \* position of the run: walk / esl / sdat / raised / done, or the stage of a pure-function run
    err,        \* the exception that ended load_all_data, "none" while there is none
    meters,     \* the local `meters` of load_all_data, afterwards the AllMeters handed to the payload builders
    nfiles,     \* .xml files the directory walk has taken so far
    nper,       \* TimePeriod elements of the current file the loop of parse_esl_file has taken
    cur,        \* what happened to the current file: which parser ran, what it reported
    walked,     \* `meters` as the walk left it, before the series were sorted
    series,     \* one MeterSeries that add_or_update_messwert is applied to directly
    supplied,   \* for that series: the last value each call sequence supplied per (timestamp, field)
    nmerge,     \* calls of add_or_update_messwert made on `series`
    chart,      \* result of build_chartjs_payload
    diffs,      \* import_diffs / export_diffs inside build_consumption_payload
    consumption,\* result of build_consumption_payload
    fileX,      \* first input file of a fold experiment
    fileY,      \* second input file of a fold experiment
    folds       \* outcomes of load_all_data over <<X>>, <<X,X>>, <<X,Y>>, <<Y,X>>

loadVars == <<err, meters, nfiles, nper, cur, walked>>
mergeVars == <<series, supplied, nmerge>>
payloadVars == <<chart, diffs, consumption>>
foldVars == <<fileX, fileY, folds>>
vars == <<pc, err, meters, nfiles, nper, cur, walked, series, supplied, nmerge,
          chart, diffs, consumption, fileX, fileY, folds>>

----------------------------------------------------------------------------
(* Bounds *)

MaxT == 3           \* instants of a series handed to a pure function are the hours 1..MaxT
MaxEndHour == 2     \* TimePeriod end instants written in files are the hours 1..MaxEndHour
MaxFiles == 2       \* files taken by one directory walk
MaxPeriods == 2     \* TimePeriod elements per file
MaxMerges == 3      \* direct calls of add_or_update_messwert

Instants == 1..MaxT

----------------------------------------------------------------------------
(* Values *)

None == [kind |-> "None", num |-> 0]
NaN == [kind |-> "nan", num |-> 0]
Num(n) == [kind |-> "num", num |-> n]

METER_EXPORT_ID == "ID735"
METER_IMPORT_ID == "ID742"
OtherMeterId == "ID999"
MeterIds == {METER_EXPORT_ID, METER_IMPORT_ID, OtherMeterId}

OBIS_IMPORT == {":1.8.1", ":1.8.2"}
OBIS_EXPORT == {":2.8.1", ":2.8.2"}

\* Messwert(timestamp, value, relative)
Messwert(ts, value, relative) ==
    [timestamp |-> ts, value |-> value, relative |-> relative]

\* meters: dict meter id -> OrderedDict; `present` is key membership,
\* `items` the OrderedDict's values in insertion order.
EmptyMeters == [m \in MeterIds |-> [present |-> FALSE, items |-> <<>>]]

Keys(items) == {items[i].timestamp : i \in DOMAIN items}

----------------------------------------------------------------------------
(* ensure_datetime_utc *)

\* A timestamp text: "naive" (no zone), "Z" (trailing Z), "offset" (clock
\* written in zone UTC+off), "bad" (no known format), "absent" (no attribute).
TsText(form, clock, off) == [form |-> form, clock |-> clock, off |-> off]

EnsureDatetimeUtc(text) ==
    IF text.form = "bad"
    THEN [ok |-> FALSE, dt |-> 0]                      \* ValueError re-raised
    ELSE IF text.form = "offset"
         THEN [ok |-> TRUE, dt |-> text.clock - text.off]   \* astimezone(utc)
         ELSE [ok |-> TRUE, dt |-> text.clock]              \* naive or Z: taken as UTC

----------------------------------------------------------------------------
(* add_or_update_messwert *)

AddOrUpdateOverwriteBoth(items, ts, value, relative) ==
    IF ts \notin Keys(items)
    THEN Append(items, Messwert(ts,
                    IF value # None THEN value ELSE NaN,
                    IF relative # None THEN relative ELSE NaN))
    ELSE [i \in DOMAIN items |->
            IF items[i].timestamp = ts
            THEN Messwert(ts,
                    IF value # None THEN value ELSE NaN,
                    IF relative # None THEN relative ELSE NaN)
            ELSE items[i]]

AddNum(a, b) == IF a.kind = "num" /\ b.kind = "num" THEN Num(a.num + b.num) ELSE NaN

AddOrUpdateAccumulate(items, ts, value, relative) ==
    IF ts \notin Keys(items)
    THEN Append(items, Messwert(ts,
                    IF value # None THEN value ELSE NaN,
                    IF relative # None THEN relative ELSE NaN))
    ELSE [i \in DOMAIN items |->
            IF items[i].timestamp = ts
            THEN Messwert(ts,
                    IF value # None THEN AddNum(items[i].value, value) ELSE items[i].value,
                    IF relative # None THEN AddNum(items[i].relative, relative) ELSE items[i].relative)
            ELSE items[i]]

AddOrUpdateMesswert(items, ts, value, relative) ==
    IF ts \notin Keys(items)
    THEN Append(items, Messwert(ts,
                    IF value # None THEN value ELSE NaN,
                    IF relative # None THEN relative ELSE NaN))
    ELSE [i \in DOMAIN items |->
            IF items[i].timestamp = ts
            THEN Messwert(ts,
                    IF value # None THEN value ELSE items[i].value,
                    IF relative # None THEN relative ELSE items[i].relative)
            ELSE items[i]]

\* series = meters.setdefault(id, OrderedDict()); add_or_update_messwert(series, ts, value=v)
MergeValue(ms, id, ts, v) ==
    [ms EXCEPT ![id] = [present |-> TRUE,
                        items |-> AddOrUpdateMesswert(@.items, ts, v, None)]]

----------------------------------------------------------------------------
(* parse_esl_file *)

\* The text of a ValueRow's value attribute.
ValText(form, whole, frac) == [form |-> form, whole |-> whole, frac |-> frac]

\* float(val_text.replace(",", ".")), in tenths; ok = FALSE is ValueError
ParseFloat(text) ==
    IF text.form \in {"dot", "comma"}
    THEN [ok |-> TRUE, val |-> 10 * text.whole + text.frac]
    ELSE [ok |-> FALSE, val |-> 0]

\* An OBIS code "medium-channel" + ":c.d.e"; `suffix in obis` looks at its tail.
Obis(medium, code) == [medium |-> medium, code |-> code]

Contains(obis, suffix) == obis.code = suffix

Row(obis, text) == [obis |-> obis, val |-> text]

RowStart == [sum_import |-> 0, sum_export |-> 0,
             import_present |-> FALSE, export_present |-> FALSE]

\* one iteration of `for vr in tp.findall(".//ValueRow")`
EslValueRow(acc, vr) ==
    LET p == ParseFloat(vr.val) IN
    IF ~p.ok THEN acc
    ELSE IF \E suffix \in OBIS_IMPORT : Contains(vr.obis, suffix)
         THEN [acc EXCEPT !.sum_import = @ + p.val, !.import_present = TRUE]
         ELSE IF \E suffix \in OBIS_EXPORT : Contains(vr.obis, suffix)
              THEN [acc EXCEPT !.sum_export = @ + p.val, !.export_present = TRUE]
              ELSE acc

RECURSIVE EslValueRows(_, _)
EslValueRows(acc, rows) ==
    IF rows = <<>> THEN acc
    ELSE EslValueRows(EslValueRow(acc, Head(rows)), Tail(rows))

\* `if export_present: add_or_update_messwert(..., value=sum_export)`
EslMergeExport(ms, ts, acc) ==
    IF acc.export_present
    THEN MergeValue(ms, METER_EXPORT_ID, ts, Num(acc.sum_export))
    ELSE ms

\* `if import_present: add_or_update_messwert(..., value=sum_import)`
EslMergeImport(ms, ts, acc) ==
    IF acc.import_present
    THEN MergeValue(ms, METER_IMPORT_ID, ts, Num(acc.sum_import))
    ELSE ms

\* the two merges that end an iteration, import first
EslMerges(ms, ts, acc) == EslMergeExport(EslMergeImport(ms, ts, acc), ts, acc)

\* an iteration from `ts = ensure_datetime_utc(end_attr)` on; r is that call's outcome
EslTimePeriodAt(ms, tp, r) ==
    IF ~r.ok
    THEN [raised |-> TRUE, meters |-> ms]
    ELSE [raised |-> FALSE,
          meters |-> EslMerges(ms, r.dt, EslValueRows(RowStart, tp.rows))]

\* one iteration of `for tp in time_periods`; raised = ensure_datetime_utc raised
EslTimePeriod(ms, tp) ==
    IF tp.end.form = "absent"
    THEN [raised |-> FALSE, meters |-> ms]
    ELSE EslTimePeriodAt(ms, tp, EnsureDatetimeUtc(tp.end))

RECURSIVE EslTimePeriods(_, _)
\* the loop after one iteration with outcome r
EslNext(r, rest) ==
    IF r.raised THEN [result |-> "ValueError", meters |-> r.meters]
    ELSE EslTimePeriods(r.meters, rest)

\* `for tp in time_periods: ...` and the `return True` after it
EslTimePeriods(ms, tps) ==
    IF tps = <<>> THEN [result |-> "True", meters |-> ms]
    ELSE EslNext(EslTimePeriod(ms, Head(tps)), Tail(tps))

\* A file: wellFormed (ET.parse succeeds), periods (its TimePeriod elements),
\* tokens (its text content mentions "DocumentID" or "Interval").
File(wellFormed, periods, tokens) ==
    [wellFormed |-> wellFormed, periods |-> periods, tokens |-> tokens]

\* The checks before the loop: ParseError, or no TimePeriod, is "not ESL".
EslApplicable(f) == f.wellFormed /\ f.periods # <<>>

ParseEslFile(f, ms) ==
    IF ~EslApplicable(f) THEN [result |-> "False", meters |-> ms]
    ELSE EslTimePeriods(ms, f.periods)

----------------------------------------------------------------------------
(* parse_sdat_file *)

\* ParseError and the text heuristic return False.  Past them the first
\* find_text call evaluates root.find(".//rsm:DocumentID") with no namespace
\* map, which ElementTree rejects: SyntaxError("prefix 'rsm' not found in
\* prefix map").  Nothing catches it, so the rest of the function never runs.
ParseSdatFile(f, ms) ==
    IF ~f.wellFormed THEN [result |-> "False", meters |-> ms]
    ELSE IF ~f.tokens THEN [result |-> "False", meters |-> ms]
    ELSE [result |-> "SyntaxError", meters |-> ms]

----------------------------------------------------------------------------
(* load_all_data *)

RunSdatAlways(parsed) == TRUE

\* `if not parsed: parse_sdat_file(fpath, meters)`
RunSdat(parsed) == ~parsed

RECURSIVE InsertSorted(_, _)
InsertSorted(sorted, r) ==
    IF sorted = <<>> THEN <<r>>
    ELSE IF r.timestamp < Head(sorted).timestamp THEN <<r>> \o sorted
    ELSE <<Head(sorted)>> \o InsertSorted(Tail(sorted), r)

RECURSIVE SortedItems(_)
SortedItems(items) ==
    IF items = <<>> THEN <<>>
    ELSE InsertSorted(SortedItems(SubSeq(items, 1, Len(items) - 1)), items[Len(items)])

KeepInsertionOrder(items) == items

\* OrderedDict(sorted(series.items(), key=lambda kv: kv[0]))
SortSeries(items) == SortedItems(items)

SortAll(ms) == [m \in MeterIds |-> [ms[m] EXCEPT !.items = SortSeries(@)]]

\* after parse_sdat_file returned or raised b
RouteAfterSdat(b) ==
    [status |-> IF b.result = "SyntaxError" THEN "SyntaxError" ELSE "ok",
     meters |-> b.meters]

\* after `parsed = parse_esl_file(fpath, meters)` returned or raised a
RouteAfterEsl(f, a) ==
    IF a.result = "ValueError" THEN [status |-> "ValueError", meters |-> a.meters]
    ELSE IF RunSdat(a.result = "True")
         THEN RouteAfterSdat(ParseSdatFile(f, a.meters))
         ELSE [status |-> "ok", meters |-> a.meters]

\* the body of the walk for one file
RouteFile(f, ms) == RouteAfterEsl(f, ParseEslFile(f, ms))

RECURSIVE WalkFiles(_, _)
\* the walk after one file with outcome r: an exception ends it
WalkNext(r, rest) == IF r.status # "ok" THEN r ELSE WalkFiles(rest, r.meters)

\* `for fname in files: ...`
WalkFiles(files, ms) ==
    IF files = <<>> THEN [status |-> "ok", meters |-> ms]
    ELSE WalkNext(RouteFile(Head(files), ms), Tail(files))

\* the end of load_all_data: no AllMeters is returned when the walk raised
LoadReturn(w) ==
    IF w.status # "ok" THEN [status |-> w.status, meters |-> EmptyMeters]
    ELSE [status |-> "returned", meters |-> SortAll(w.meters)]

\* load_all_data over the files of the walk
LoadAllData(files) == LoadReturn(WalkFiles(files, EmptyMeters))

----------------------------------------------------------------------------
(* build_chartjs_payload *)

RECURSIVE SortedSet(_)
\* sorted(label_set)
SortedSet(S) ==
    IF S = {} THEN <<>>
    ELSE LET lo == CHOOSE x \in S : \A y \in S : x <= y
         IN <<lo>> \o SortedSet(S \ {lo})

\* dt.astimezone(timezone.utc).isoformat(): the text of an instant
IsoFormat(t) == [hour |-> t, zone |-> "+00:00"]

\* series[ts]
At(items, ts) == items[CHOOSE i \in DOMAIN items : items[i].timestamp = ts]

\* meters.get(meter_id, {})
SeriesOf(ms, id) == IF ms[id].present THEN ms[id].items ELSE <<>>

\* label_set over meters.values(), then sorted
Labels(ms) == SortedSet(UNION {Keys(SeriesOf(ms, m)) : m \in MeterIds})

SeriesValuesDropGaps(ms, id, labels) ==
    LET items == SeriesOf(ms, id) IN
    [i \in 1..Cardinality(Keys(items)) |-> SortedItems(items)[i].value]

SeriesValues(ms, id, labels) ==
    LET items == SeriesOf(ms, id) IN
    [i \in DOMAIN labels |->
        IF labels[i] \in Keys(items) THEN At(items, labels[i]).value ELSE None]

BuildChartjsPayload(ms) ==
    LET labels == Labels(ms) IN
    [labels |-> [i \in DOMAIN labels |-> IsoFormat(labels[i])],
     export |-> SeriesValues(ms, METER_EXPORT_ID, labels),
     import |-> SeriesValues(ms, METER_IMPORT_ID, labels)]

----------------------------------------------------------------------------
(* build_consumption_payload *)

\* float(v_curr) - float(v_prev)
FloatSub(a, b) == IF a.kind = "num" /\ b.kind = "num" THEN Num(a.num - b.num) ELSE NaN

DiffKeepNegative(v_prev, v_curr) ==
    LET diff == FloatSub(v_curr, v_prev) IN
    IF diff.kind = "nan" THEN None ELSE diff

\* `if not (diff == diff) or diff < 0: None else diff`
Diff(v_prev, v_curr) ==
    LET diff == FloatSub(v_curr, v_prev) IN
    IF diff.kind = "nan" \/ diff.num < 0 THEN None ELSE diff

\* series_diffs: a dict from timestamps[i], i >= 1, to the diff or None
SeriesDiffs(items) ==
    LET timestamps == SortedSet(Keys(items)) IN
    [t \in {timestamps[i] : i \in 2..Len(timestamps)} |->
        LET i == CHOOSE j \in 2..Len(timestamps) : timestamps[j] = t
        IN Diff(At(items, timestamps[i - 1]).value, At(items, timestamps[i]).value)]

\* diffs_map.get(ts)
DiffGet(diffs_map, ts) == IF ts \in DOMAIN diffs_map THEN diffs_map[ts] ELSE None

ValuesFor(diffs_map, labels) == [i \in DOMAIN labels |-> DiffGet(diffs_map, labels[i])]

ImportDiffs(ms) == SeriesDiffs(SeriesOf(ms, METER_IMPORT_ID))
ExportDiffs(ms) == SeriesDiffs(SeriesOf(ms, METER_EXPORT_ID))

BuildConsumptionPayload(ms) ==
    LET labels == SortedSet(DOMAIN ImportDiffs(ms) \cup DOMAIN ExportDiffs(ms)) IN
    [labels |-> [i \in DOMAIN labels |-> IsoFormat(labels[i])],
     export |-> ValuesFor(ExportDiffs(ms), labels),
     import |-> ValuesFor(ImportDiffs(ms), labels)]

----------------------------------------------------------------------------
(* Inputs *)

EndTexts ==
    {TsText("absent", 0, 0), TsText("bad", 0, 0),
     TsText("Z", 1, 0), TsText("offset", 2, 1)}
    \cup {TsText("naive", t, 0) : t \in 1..MaxEndHour}

RowImportHT == Row(Obis("1-1", ":1.8.1"), ValText("dot", 5, 0))
RowImportNT == Row(Obis("1-1", ":1.8.2"), ValText("comma", 3, 5))
RowExportHT == Row(Obis("1-1", ":2.8.1"), ValText("dot", 2, 0))
RowOther == Row(Obis("1-1", ":9.9.9"), ValText("dot", 4, 0))
RowJunk == Row(Obis("1-1", ":1.8.1"), ValText("junk", 0, 0))

RowSeqs ==
    {<<>>, <<RowImportHT>>, <<RowImportHT, RowImportNT>>, <<RowExportHT>>,
     <<RowImportHT, RowExportHT>>, <<RowOther>>, <<RowJunk>>}

TimePeriod(end, rows) == [end |-> end, rows |-> rows]

TimePeriods == {TimePeriod(e, r) : e \in EndTexts, r \in RowSeqs}

----------------------------------------------------------------------------
(* One run of load_all_data, file by file and TimePeriod by TimePeriod *)

NoFile == [esl |-> "none", sdat |-> FALSE, rows |-> FALSE, wrote |-> FALSE,
           wellFormed |-> FALSE, tokens |-> FALSE]

Idle ==
    /\ series = <<>> /\ supplied = <<>> /\ nmerge = 0
    /\ chart = <<>> /\ diffs = <<>> /\ consumption = <<>>
    /\ fileX = <<>> /\ fileY = <<>> /\ folds = <<>>

Init ==
    /\ pc = "walk" /\ err = "none" /\ meters = EmptyMeters
    /\ nfiles = 0 /\ nper = 0 /\ cur = NoFile /\ walked = EmptyMeters
    /\ Idle

\* The walk takes the next .xml file and calls parse_esl_file on it; a file
\* that does not parse or has no TimePeriod returns False at once.
TakeFile(wellFormed, hasPeriods, tokens) ==
    /\ pc = "walk" /\ nfiles < MaxFiles
    /\ nfiles' = nfiles + 1 /\ nper' = 0
    /\ LET applicable == EslApplicable(File(wellFormed,
                              IF hasPeriods THEN <<"TimePeriod">> ELSE <<>>, tokens))
       IN /\ cur' = [NoFile EXCEPT !.esl = IF applicable THEN "running" ELSE "False",
                                   !.wellFormed = wellFormed, !.tokens = tokens]
          /\ pc' = IF applicable THEN "esl"
                   ELSE IF RunSdat(FALSE) THEN "sdat" ELSE "walk"
    /\ UNCHANGED <<err, meters, walked, mergeVars, payloadVars, foldVars>>

\* One iteration of the TimePeriod loop.
EslPeriod(tp) ==
    /\ pc = "esl" /\ nper < MaxPeriods
    /\ LET r == EslTimePeriod(meters, tp)
           acc == EslValueRows(RowStart, tp.rows)
       IN /\ meters' = r.meters
          /\ pc' = IF r.raised THEN "raised" ELSE "esl"
          /\ err' = IF r.raised THEN "ValueError" ELSE err
          /\ cur' = [cur EXCEPT
                       !.esl = IF r.raised THEN "raised" ELSE @,
                       !.rows = @ \/ tp.rows # <<>>,
                       !.wrote = @ \/ (~r.raised /\ tp.end.form # "absent"
                                        /\ (acc.import_present \/ acc.export_present))]
    /\ nper' = nper + 1
    /\ UNCHANGED <<nfiles, walked, mergeVars, payloadVars, foldVars>>

\* The loop is over: parse_esl_file returns True.
EslReturn ==
    /\ pc = "esl" /\ nper >= 1
    /\ cur' = [cur EXCEPT !.esl = "True"]
    /\ pc' = IF RunSdat(TRUE) THEN "sdat" ELSE "walk"
    /\ UNCHANGED <<err, meters, nfiles, nper, walked, mergeVars, payloadVars, foldVars>>

\* parse_sdat_file on the current file.
SdatParse ==
    /\ pc = "sdat"
    /\ LET b == ParseSdatFile(File(cur.wellFormed, <<>>, cur.tokens), meters)
       IN /\ meters' = b.meters
          /\ pc' = IF b.result = "SyntaxError" THEN "raised" ELSE "walk"
          /\ err' = IF b.result = "SyntaxError" THEN "SyntaxError" ELSE err
    /\ cur' = [cur EXCEPT !.sdat = TRUE]
    /\ UNCHANGED <<nfiles, nper, walked, mergeVars, payloadVars, foldVars>>

\* The walk is over: every series is sorted and the dict returned.
SortAndReturn ==
    /\ pc = "walk"
    /\ meters' = SortAll(meters)
    /\ walked' = meters
    /\ pc' = "done"
    /\ UNCHANGED <<err, nfiles, nper, cur, mergeVars, payloadVars, foldVars>>

Next ==
    \/ \E w \in BOOLEAN, h \in BOOLEAN, k \in BOOLEAN : TakeFile(w, h, k)
    \/ \E tp \in TimePeriods : EslPeriod(tp)
    \/ EslReturn
    \/ SdatParse
    \/ SortAndReturn

Spec == Init /\ [][Next]_vars

----------------------------------------------------------------------------
(* Direct calls of add_or_update_messwert on one series *)

OptValues == {None, Num(0), Num(50)}
OptRelatives == {None, Num(0), Num(7)}

NotSupplied == [touched |-> FALSE, value |-> None, relative |-> None, overwritten |-> FALSE]

InitMerge ==
    /\ pc = "merge" /\ err = "none" /\ meters = EmptyMeters
    /\ nfiles = 0 /\ nper = 0 /\ cur = NoFile /\ walked = EmptyMeters
    /\ series = <<>> /\ supplied = [t \in Instants |-> NotSupplied] /\ nmerge = 0
    /\ chart = <<>> /\ diffs = <<>> /\ consumption = <<>>
    /\ fileX = <<>> /\ fileY = <<>> /\ folds = <<>>

\* add_or_update_messwert(series, ts, value=value, relative=relative);
\* `supplied` remembers what the caller passed last for each field.
Merge(ts, value, relative) ==
    /\ pc = "merge" /\ nmerge < MaxMerges
    /\ series' = AddOrUpdateMesswert(series, ts, value, relative)
    /\ supplied' = [supplied EXCEPT ![ts] =
                      [touched |-> TRUE,
                       value |-> IF value # None THEN value ELSE @.value,
                       relative |-> IF relative # None THEN relative ELSE @.relative,
                       overwritten |-> \/ @.overwritten
                                       \/ (value # None /\ @.value \notin {None, value})
                                       \/ (relative # None /\ @.relative \notin {None, relative})]]
    /\ nmerge' = nmerge + 1
    /\ UNCHANGED <<pc, loadVars, payloadVars, foldVars>>

NextMerge == \E ts \in Instants, v \in OptValues, r \in OptRelatives : Merge(ts, v, r)

SpecMerge == InitMerge /\ [][NextMerge]_vars

----------------------------------------------------------------------------
(* The payload builders applied to a loaded AllMeters *)

AbsoluteValues == {80, 100, 130}

\* what a series may hold at one instant: nothing, an absolute reading, or a
\* reading known only by its relative volume
ImportCells == {None, NaN} \cup {Num(v) : v \in AbsoluteValues}
ExportCells == {None, Num(50)}

CellItem(t, c) ==
    IF c = None THEN <<>>
    ELSE IF c = NaN THEN <<Messwert(t, NaN, Num(7))>>
    ELSE <<Messwert(t, c, NaN)>>

RECURSIVE ItemsFrom(_, _)
ItemsFrom(cells, t) ==
    IF t > MaxT THEN <<>> ELSE CellItem(t, cells[t]) \o ItemsFrom(cells, t + 1)

SeriesFrom(cells) ==
    [present |-> ItemsFrom(cells, 1) # <<>>, items |-> ItemsFrom(cells, 1)]

\* a third meter, not one of the two tracked ones, with at most one reading
OtherSeries ==
    {[present |-> FALSE, items |-> <<>>]}
    \cup {[present |-> TRUE, items |-> <<Messwert(t, NaN, Num(7))>>] : t \in Instants}

InitPayload ==
    /\ pc = "loaded" /\ err = "none"
    /\ \E ic \in [Instants -> ImportCells], ec \in [Instants -> ExportCells],
          o \in OtherSeries :
            meters = [m \in MeterIds |->
                        IF m = METER_IMPORT_ID THEN SeriesFrom(ic)
                        ELSE IF m = METER_EXPORT_ID THEN SeriesFrom(ec)
                        ELSE o]
    /\ nfiles = 0 /\ nper = 0 /\ cur = NoFile /\ walked = EmptyMeters
    /\ Idle

BuildChart ==
    /\ pc = "loaded"
    /\ chart' = BuildChartjsPayload(meters)
    /\ pc' = "chart"
    /\ UNCHANGED <<loadVars, mergeVars, diffs, consumption, foldVars>>

BuildConsumption ==
    /\ pc = "loaded"
    /\ diffs' = [import |-> ImportDiffs(meters), export |-> ExportDiffs(meters)]
    /\ consumption' = BuildConsumptionPayload(meters)
    /\ pc' = "consumption"
    /\ UNCHANGED <<loadVars, mergeVars, chart, foldVars>>

NextPayload == BuildChart \/ BuildConsumption

SpecPayload == InitPayload /\ [][NextPayload]_vars

----------------------------------------------------------------------------
(* load_all_data over the same file twice, and over two files in both orders *)

EslFiles ==
    {File(TRUE, <<p>>, TRUE) : p \in TimePeriods}
    \cup {File(TRUE, ps, FALSE) : ps \in UNION {[1..n -> TimePeriods] : n \in 1..MaxPeriods}}

Malformed == File(FALSE, <<>>, FALSE)
Unrelated == File(TRUE, <<>>, FALSE)
SdatDocument == File(TRUE, <<>>, TRUE)

InitFold ==
    /\ pc = "fold" /\ err = "none" /\ meters = EmptyMeters
    /\ nfiles = 0 /\ nper = 0 /\ cur = NoFile /\ walked = EmptyMeters
    /\ series = <<>> /\ supplied = <<>> /\ nmerge = 0
    /\ chart = <<>> /\ diffs = <<>> /\ consumption = <<>>
    /\ fileX \in EslFiles \cup {Malformed, Unrelated, SdatDocument}
    /\ fileY \in {Unrelated, SdatDocument}
    /\ folds = <<>>

FoldTwice ==
    /\ pc = "fold"
    /\ folds' = [once |-> LoadAllData(<<fileX>>), twice |-> LoadAllData(<<fileX, fileX>>)]
    /\ pc' = "twice"
    /\ UNCHANGED <<loadVars, mergeVars, payloadVars, fileX, fileY>>

FoldBothOrders ==
    /\ pc = "fold"
    /\ folds' = [xy |-> LoadAllData(<<fileX, fileY>>), yx |-> LoadAllData(<<fileY, fileX>>)]
    /\ pc' = "orders"
    /\ UNCHANGED <<loadVars, mergeVars, payloadVars, fileX, fileY>>

NextFold == FoldTwice \/ FoldBothOrders

SpecFold == InitFold /\ [][NextFold]_vars

----------------------------------------------------------------------------
(* Properties *)

\* the field of a reading after merges whose last supplied value is v
Unset(v) == IF v = None THEN NaN ELSE v

\* C1: merging is field-level last-write-wins.  A reading exists at exactly
\* the timestamps merged so far, once each; each of its fields holds the value
\* of the last merge that supplied that field, and is unset (never a number,
\* so never mistaken for a real zero) when no merge supplied it.
C1_FieldLevelLastWriteWins ==
    /\ Keys(series) = {t \in Instants : supplied[t].touched}
    /\ Len(series) = Cardinality(Keys(series))
    /\ \A i \in DOMAIN series :
          LET last == supplied[series[i].timestamp] IN
          /\ series[i].value = Unset(last.value)
          /\ series[i].relative = Unset(last.relative)
          /\ (series[i].value.kind = "num") = (last.value # None)
          /\ (series[i].relative.kind = "num") = (last.relative # None)

\* a field was overwritten by a later merge while the other field of the same
\* reading, never supplied, is still unset
C1_Witness ==
    \E i \in DOMAIN series :
        /\ supplied[series[i].timestamp].overwritten
        /\ series[i].value = Num(50)
        /\ series[i].relative = NaN

\* C2: a malformed timestamp never aborts ingestion: load_all_data is never
\* left by the ValueError of ensure_datetime_utc.
C2_MalformedTimestampNeverAborts == err # "ValueError"

\* C3: routing is exclusive and ordered.  parse_sdat_file runs on a file only
\* after parse_esl_file has reported it not applicable, never after it
\* reported success or merged a reading.
C3_RoutingExclusive ==
    /\ pc = "sdat" => cur.esl = "False"
    /\ cur.sdat => (cur.esl = "False" /\ ~cur.wrote)
    /\ cur.esl \in {"True", "running", "raised"} => ~cur.sdat

\* a file with Dialect-B-like text that Dialect A claimed without one usable
\* observation has gone through the router, and Dialect B was not run on it
C3_Witness ==
    /\ pc = "walk" /\ cur.esl = "True"
    /\ cur.tokens /\ ~cur.wrote /\ ~cur.sdat

\* what the diffs d of a sorted series are to be
DiffsAsClaimed(items, d) ==
    /\ DOMAIN d = {items[i].timestamp : i \in 2..Len(items)}
    /\ \A i \in 2..Len(items) :
          LET a == items[i - 1].value
              b == items[i].value
          IN d[items[i].timestamp] =
                IF a.kind = "num" /\ b.kind = "num" /\ b.num - a.num >= 0
                THEN Num(b.num - a.num)
                ELSE None

\* what a dataset of the consumption payload is to be
VectorAsClaimed(vector, labels, d) ==
    /\ Len(vector) = Len(labels)
    /\ \A i \in DOMAIN labels :
          vector[i] = IF labels[i].hour \in DOMAIN d THEN d[labels[i].hour] ELSE None

HasAbsoluteAt(ms, id, t) ==
    \E i \in DOMAIN SeriesOf(ms, id) :
        /\ SeriesOf(ms, id)[i].timestamp = t
        /\ SeriesOf(ms, id)[i].value.kind = "num"

\* a real value exactly where there is an absolute reading, None elsewhere
EntryAsClaimed(ms, id, vector, labels) ==
    \A i \in DOMAIN labels :
        IF HasAbsoluteAt(ms, id, labels[i].hour)
        THEN vector[i].kind = "num"
        ELSE vector[i] = None

\* C5: in the raw-reading payload every entry of a tracked meter is a real
\* value where the meter has an absolute reading at the label's instant and
\* None (null) everywhere else, also where the reading there has only a
\* relative volume.
C5_AbsentDataIsNull ==
    pc = "chart" =>
        /\ EntryAsClaimed(meters, METER_IMPORT_ID, chart.import, chart.labels)
        /\ EntryAsClaimed(meters, METER_EXPORT_ID, chart.export, chart.labels)

\* the instants of all series
AllKeys(ms) == UNION {Keys(SeriesOf(ms, m)) : m \in MeterIds}

\* index i holds the series' value at labels[i], or None
AlignedAsClaimed(items, vector, labels) ==
    /\ Len(vector) = Len(labels)
    /\ \A i \in DOMAIN labels :
          IF \E k \in DOMAIN items : items[k].timestamp = labels[i].hour
          THEN \E k \in DOMAIN items :
                  items[k].timestamp = labels[i].hour /\ vector[i] = items[k].value
          ELSE vector[i] = None

\* C6: alignment.  The labels are the instants of all series, each once, in
\* ascending order; each tracked meter's vector is as long as the labels and
\* holds at index i the meter's value at labels[i], or None when the meter has
\* no reading there.
C6_AlignmentComplete ==
    pc = "chart" =>
        /\ Len(chart.labels) = Cardinality(AllKeys(meters))
        /\ {chart.labels[i] : i \in DOMAIN chart.labels} = {IsoFormat(t) : t \in AllKeys(meters)}
        /\ \A i \in DOMAIN chart.labels : \A j \in DOMAIN chart.labels :
              i < j => chart.labels[i].hour < chart.labels[j].hour
        /\ AlignedAsClaimed(SeriesOf(meters, METER_IMPORT_ID), chart.import, chart.labels)
        /\ AlignedAsClaimed(SeriesOf(meters, METER_EXPORT_ID), chart.export, chart.labels)

\* meter A with readings at 1 and 3, meter B with one at 2
C6_Witness ==
    /\ pc = "chart"
    /\ Keys(SeriesOf(meters, METER_IMPORT_ID)) = {1, 3}
    /\ Keys(SeriesOf(meters, METER_EXPORT_ID)) = {2}
    /\ chart.labels = <<IsoFormat(1), IsoFormat(2), IsoFormat(3)>>
    /\ chart.import = <<Num(100), None, Num(130)>>

\* C7: re-ingestion is idempotent: load_all_data over a file twice in a row
\* ends as load_all_data over it once does, with the same AllMeters.
C7_ReingestionIdempotent ==
    pc = "twice" => folds.twice = folds.once

\* a file whose two periods end at the same instant with different sums
C7_Witness ==
    /\ pc = "twice"
    /\ folds.once.status = "returned"
    /\ Len(fileX.periods) = 2
    /\ fileX.periods[1].rows = <<RowImportHT, RowImportNT>>
    /\ fileX.periods[2].rows = <<RowImportHT>>
    /\ folds.twice.meters[METER_IMPORT_ID].items = <<Messwert(1, Num(50), NaN)>>

\* C8: for a file X that supplies absolute readings and a Dialect B document
\* Y, load_all_data returns an AllMeters after X then Y, and the same after Y
\* then X.
C8_DisjointFieldsOrderIndependent ==
    (/\ pc = "orders"
     /\ LoadAllData(<<fileX>>).status = "returned"
     /\ LoadAllData(<<fileX>>).meters[METER_IMPORT_ID].present
     /\ fileY = SdatDocument)
    => (folds.xy = folds.yx /\ folds.xy.status = "returned")

\* timestamps[i] < timestamps[i+1] for all i
Ascending(items) ==
    \A i \in 1..(Len(items) - 1) : items[i].timestamp < items[i + 1].timestamp

\* C9: every series of the AllMeters load_all_data returns has unique,
\* strictly ascending timestamps.
C9_SortedOnReturn ==
    pc = "done" => \A m \in MeterIds : Ascending(meters[m].items)

\* a run returned although the walk had left a series out of order
C9_Witness ==
    /\ pc = "done"
    /\ ~Ascending(walked[METER_IMPORT_ID].items)
    /\ Len(meters[METER_IMPORT_ID].items) >= 2

\* C10: Dialect A claims a file only when one of its period containers holds a
\* value row.
C10_EslNeedsValueRow == cur.esl = "True" => cur.rows

====
